---- MODULE Spec2Model ----
(***************************************************************************)
(* Model of webscraper/scrapy.py, the "Universal Exam Info Fetcher".       *)
(*                                                                         *)
(* The program is sequential.  One behaviour of the model is one call of   *)
(* one of its three entry points (fetch_exam_info_universal,               *)
(* find_relevant_wiki_info, fetch_free_pyqs_links); a step is one external *)
(* request together with all the processing the code does on its response. *)
(* The outside world (Wikipedia, YouTube, Google Books, the two archive    *)
(* sites) answers every request with a response drawn from a bounded set;  *)
(* each request and its response are appended to the log `calls`.          *)
(*                                                                         *)
(* Python strings are TLA+ strings, handled with Len, SubSeq and \o.       *)
(* An Optional value is None or Some(v).  A dict is the sequence of its    *)
(* items in insertion order.                                               *)
(***************************************************************************)
EXTENDS Integers, Sequences, FiniteSets, TLC

VARIABLES entry, exam_query, include_videos, include_books, youtube_enabled,
          pc, calls, title, wikipedia, videos, playlist, books,
          links, scraped_links, free_pyqs

vars == <<entry, exam_query, include_videos, include_books, youtube_enabled,
          pc, calls, title, wikipedia, videos, playlist, books,
          links, scraped_links, free_pyqs>>

-----------------------------------------------------------------------------
(* Python values                                                           *)

None == [some |-> FALSE]
Some(v) == [some |-> TRUE, val |-> v]

\* Python truthiness of an Optional[str]: None and "" are falsy.
Truthy(o) == o.some /\ o.val # ""

\* a or b, on Optional[str] operands
Or(a, b) == IF Truthy(a) THEN a ELSE b

\* seq[:n]
Take(seq, n) == SubSeq(seq, 1, IF Len(seq) < n THEN Len(seq) ELSE n)

UpperChars == <<"A","B","C","D","E","F","G","H","I","J","K","L","M",
                "N","O","P","Q","R","S","T","U","V","W","X","Y","Z">>
LowerChars == <<"a","b","c","d","e","f","g","h","i","j","k","l","m",
                "n","o","p","q","r","s","t","u","v","w","x","y","z">>

LowerChar(c) ==
  IF \E i \in 1..Len(UpperChars) : UpperChars[i] = c
  THEN LowerChars[CHOOSE i \in 1..Len(UpperChars) : UpperChars[i] = c]
  ELSE c

\* str.lower(): acc is the lowered prefix s[:i-1]
RECURSIVE LowerFrom(_, _, _)
LowerFrom(s, i, acc) ==
  IF i > Len(s) THEN acc
  ELSE LowerFrom(s, i + 1, acc \o LowerChar(SubSeq(s, i, i)))
Lower(s) == LowerFrom(s, 1, "")

\* sub in s
Contains(sub, s) ==
  \E i \in 1..(Len(s) - Len(sub) + 1) : SubSeq(s, i, i + Len(sub) - 1) = sub

\* s.startswith(p)
StartsWith(s, p) == Len(s) >= Len(p) /\ SubSeq(s, 1, Len(p)) = p

\* s.rstrip(chars), s.lstrip(chars): chars is the set of characters removed
RECURSIVE RStrip(_, _)
RStrip(s, chars) ==
  IF Len(s) > 0 /\ SubSeq(s, Len(s), Len(s)) \in chars
  THEN RStrip(SubSeq(s, 1, Len(s) - 1), chars)
  ELSE s

RECURSIVE LStrip(_, _)
LStrip(s, chars) ==
  IF Len(s) > 0 /\ SubSeq(s, 1, 1) \in chars
  THEN LStrip(SubSeq(s, 2, Len(s)), chars)
  ELSE s

\* the ASCII characters str.strip() removes: space, tab, newline, carriage
\* return, form feed, then vertical tab (0x0B) and the separators 0x1C..0x1F,
\* written as themselves.  str.strip() also removes the non-ASCII spaces
\* (U+0085, U+00A0, U+1680, U+2000..U+200A, U+2028, U+2029, U+202F, U+205F,
\* U+3000); how a module file encodes those depends on the platform, so no
\* page of this model contains them.
Whitespace ==
  {" ", "\t", "\n", "\r", "\f",
   "", "", "", "", ""}

\* s.strip(): leading and trailing whitespace removed
Strip(s) == LStrip(RStrip(s, Whitespace), Whitespace)

\* s.replace(a, b) for a one-character a: acc is the replaced prefix
RECURSIVE ReplaceFrom(_, _, _, _, _)
ReplaceFrom(s, a, b, i, acc) ==
  IF i > Len(s) THEN acc
  ELSE ReplaceFrom(s, a, b, i + 1,
                   acc \o (IF SubSeq(s, i, i) = a THEN b ELSE SubSeq(s, i, i)))
Replace(s, a, b) == ReplaceFrom(s, a, b, 1, "")

\* sep.join(parts)
RECURSIVE Join(_, _)
Join(parts, sep) ==
  IF Len(parts) = 0 THEN ""
  ELSE IF Len(parts) = 1 THEN parts[1]
  ELSE parts[1] \o sep \o Join(Tail(parts), sep)

\* dict: the sequence of its items [k, v] in insertion order
DictHas(d, k) == \E i \in 1..Len(d) : d[i].k = k
DictIndex(d, k) == CHOOSE i \in 1..Len(d) : d[i].k = k
\* d.get(k)
DictGet(d, k) == IF DictHas(d, k) THEN Some(d[DictIndex(d, k)].v) ELSE None
\* d[k] = v : an existing key keeps its position
DictPut(d, k, v) ==
  IF DictHas(d, k)
  THEN [d EXCEPT ![DictIndex(d, k)] = [k |-> k, v |-> v]]
  ELSE Append(d, [k |-> k, v |-> v])
\* d.setdefault(k, v)
DictSetDefault(d, k, v) == IF DictHas(d, k) THEN d ELSE DictPut(d, k, v)

-----------------------------------------------------------------------------
(* Program constants                                                       *)

WIKIPEDIA_SEARCH_API == "https://en.wikipedia.org/w/api.php"
WIKIPEDIA_REST_PAGE == "https://en.wikipedia.org/api/rest_v1/page/html/"
GOOGLE_BOOKS_BASE == "https://www.googleapis.com/books/v1/volumes"

\* status code wiki_get_html accepts
HttpOk == 200
\* max_results passed by fetch_exam_info_universal to both searches
MaxResults == 6
\* scraped_links[:5]
MaxPyqs == 5

-----------------------------------------------------------------------------
(* Wikipedia: search, page fetch, section extraction, classification       *)
(*                                                                         *)
(* A search response is [raised, status, results]: raised is TRUE when     *)
(* requests.get itself raises (transport error, timeout), status is the    *)
(* HTTP status, results are the titles of query.search in the body.  A     *)
(* page response is [raised, status, html].                                *)
(* A parsed page is the sequence of sibling elements of the document body, *)
(* each [tag, texts] with texts the element's text nodes in order.         *)

\* r.raise_for_status() raises on a 4xx or 5xx status: 400 <= status < 600
HttpError(status) == 400 <= status /\ status < 600

\* wiki_search_title without r.raise_for_status(): the body of an error
\* response is read like any other
wiki_search_title_no_status(resp) ==
  IF resp.raised THEN None
  ELSE IF Len(resp.results) = 0 THEN None
  ELSE Some(resp.results[1])

\* wiki_search_title: the first result's title, None on no result or error
wiki_search_title(resp) ==
  IF resp.raised \/ HttpError(resp.status) THEN None
  ELSE IF Len(resp.results) = 0 THEN None
  ELSE Some(resp.results[1])

\* the URL wiki_get_html requests
wiki_page_url(t) == WIKIPEDIA_REST_PAGE \o Replace(t, " ", "_")

\* wiki_get_html: the page text on status 200, else None
wiki_get_html(resp) ==
  IF resp.raised THEN None
  ELSE IF resp.status = HttpOk THEN Some(resp.html) ELSE None

IsHeading(tag) == tag \in {"h1", "h2", "h3", "h4", "h5", "h6"}
IsContentTag(tag) == tag \in {"p", "ul", "ol", "div"}

\* element.get_text(separator=" ")
GetText(e) == Join(e.texts, " ")

\* element.get_text(strip=True): stripped text nodes, the empty ones dropped
RECURSIVE StrippedNodes(_)
StrippedNodes(texts) ==
  IF Len(texts) = 0 THEN <<>>
  ELSE (IF Strip(texts[1]) = "" THEN <<>> ELSE <<Strip(texts[1])>>)
         \o StrippedNodes(Tail(texts))
GetTextStripped(e) == Join(StrippedNodes(e.texts), "")

\* for tb in soup.select("table"): tb.decompose()
RECURSIVE DecomposeTables(_)
DecomposeTables(html) ==
  IF Len(html) = 0 THEN <<>>
  ELSE (IF html[1].tag = "table" THEN <<>> ELSE <<html[1]>>)
         \o DecomposeTables(Tail(html))

\* content_parts of the header at position i: the text of the p/ul/ol/div
\* siblings from position j up to the next header
RECURSIVE ContentParts(_, _)
ContentParts(soup, j) ==
  IF j > Len(soup) THEN <<>>
  ELSE IF IsHeading(soup[j].tag) THEN <<>>
  ELSE (IF IsContentTag(soup[j].tag) /\ Strip(GetText(soup[j])) # ""
        THEN <<Strip(GetText(soup[j]))>> ELSE <<>>)
         \o ContentParts(soup, j + 1)

\* the loop over soup.find_all(h1..h6), from position i on
RECURSIVE HeaderLoop(_, _, _)
HeaderLoop(soup, i, sections) ==
  IF i > Len(soup) THEN sections
  ELSE IF ~IsHeading(soup[i].tag) THEN HeaderLoop(soup, i + 1, sections)
  ELSE LET head_text == Strip(GetText(soup[i]))
           content_parts == ContentParts(soup, i + 1)
       IN  HeaderLoop(soup, i + 1,
             IF Len(content_parts) > 0
             THEN DictPut(sections, Lower(head_text), Join(content_parts, "\n\n"))
             ELSE sections)

\* soup.find("p") and its text, "" when there is no paragraph
LeadPara(soup) ==
  IF \E i \in 1..Len(soup) : soup[i].tag = "p"
  THEN LET i == CHOOSE i \in 1..Len(soup) :
                  soup[i].tag = "p" /\ \A j \in 1..(i - 1) : soup[j].tag # "p"
       IN  GetTextStripped(soup[i])
  ELSE ""

\* the extraction with sections["summary"] = lead_para in place of setdefault
extract_sections_overwriting_summary(html) ==
  LET soup == DecomposeTables(html)
  IN  DictPut(HeaderLoop(soup, 1, <<>>), "summary", LeadPara(soup))

extract_sections_from_wiki_html(html) ==
  LET soup == DecomposeTables(html)
  IN  DictSetDefault(HeaderLoop(soup, 1, <<>>), "summary", LeadPara(soup))

syllabus_keys == <<"syllabus", "curriculum", "exam syllabus",
                   "syllabus and exam pattern", "syllabus and structure">>
pattern_keys == <<"exam pattern", "pattern", "format", "structure", "scheme">>
syllabus_words == <<"syllabus", "curriculum", "subjects", "paper", "exam">>
pattern_words == <<"pattern", "structure", "format", "scheme", "paper">>

\* the exact match taken in document order: the first section whose heading
\* is one of keys
ExactMatch_document_order(keys, sections) ==
  IF \E i \in 1..Len(sections) : \E n \in 1..Len(keys) : sections[i].k = keys[n]
  THEN LET i == CHOOSE i \in 1..Len(sections) :
                  /\ \E n \in 1..Len(keys) : sections[i].k = keys[n]
                  /\ \A j \in 1..(i - 1) :
                       \A n \in 1..Len(keys) : sections[j].k # keys[n]
       IN  Some(sections[i].v)
  ELSE None

\* for k in keys: if k in sections: out = sections[k]; break
ExactMatch(keys, sections) ==
  IF \E n \in 1..Len(keys) : DictHas(sections, keys[n])
  THEN LET n == CHOOSE n \in 1..Len(keys) :
                  /\ DictHas(sections, keys[n])
                  /\ \A m \in 1..(n - 1) : ~DictHas(sections, keys[m])
       IN  DictGet(sections, keys[n])
  ELSE None

AnyWordIn(words, secname) == \E w \in 1..Len(words) : Contains(words[w], secname)

\* if not out: for secname, content in sections.items():
\*               if any(word in secname ...): out = content; break
SubstringFallback(out, words, sections) ==
  IF Truthy(out) THEN out
  ELSE IF \E i \in 1..Len(sections) : AnyWordIn(words, sections[i].k)
  THEN LET i == CHOOSE i \in 1..Len(sections) :
                  /\ AnyWordIn(words, sections[i].k)
                  /\ \A j \in 1..(i - 1) : ~AnyWordIn(words, sections[j].k)
       IN  Some(sections[i].v)
  ELSE out

\* sections.get("summary") or sections.get("introduction") or None
SummaryOf(sections) ==
  LET s == Or(DictGet(sections, "summary"), DictGet(sections, "introduction"))
  IN  IF Truthy(s) THEN s ELSE None

\* out of find_relevant_wiki_info before anything is found
EmptyWikiInfo ==
  [title |-> None, summary |-> None, syllabus |-> None, pattern |-> None,
   other_sections |-> <<>>]

\* find_relevant_wiki_info once the title t (Optional) and the page text
\* html (Optional) are known
WikiInfo(t, html) ==
  IF ~t.some THEN EmptyWikiInfo
  ELSE IF ~html.some THEN [EmptyWikiInfo EXCEPT !.title = t]
  ELSE LET sections == extract_sections_from_wiki_html(html.val)
       IN  [title |-> t,
            summary |-> SummaryOf(sections),
            syllabus |-> SubstringFallback(ExactMatch(syllabus_keys, sections),
                                           syllabus_words, sections),
            pattern |-> SubstringFallback(ExactMatch(pattern_keys, sections),
                                          pattern_words, sections),
            other_sections |-> sections]

-----------------------------------------------------------------------------
(* YouTube and Google Books                                                *)
(*                                                                         *)
(* A YouTube response is [raised, items]; raised is TRUE when building the *)
(* client or request.execute() raises.  A Books response is                *)
(* [raised, status, items].                                                *)

\* for item in resp.get("items", []): videos.append({...})
RECURSIVE VideoEntries(_)
VideoEntries(items) ==
  IF Len(items) = 0 THEN <<>>
  ELSE <<[title |-> items[1].title,
          videoId |-> items[1].videoId,
          url |-> "https://www.youtube.com/watch?v=" \o items[1].videoId]>>
         \o VideoEntries(Tail(items))

\* search_youtube_videos once the response is known
search_youtube_videos(resp) ==
  IF resp.raised THEN <<>> ELSE VideoEntries(resp.items)

\* search_youtube_playlist once the response is known
search_youtube_playlist(resp) ==
  IF resp.raised THEN None
  ELSE IF Len(resp.items) = 0 THEN None
  ELSE Some([title |-> resp.items[1].title,
             playlistId |-> resp.items[1].playlistId,
             url |-> "https://www.youtube.com/playlist?list="
                       \o resp.items[1].playlistId])

RECURSIVE BookEntries(_)
BookEntries(items) ==
  IF Len(items) = 0 THEN <<>>
  ELSE <<[title |-> items[1].volumeInfo.title,
          authors |-> items[1].volumeInfo.authors,
          publisher |-> items[1].volumeInfo.publisher,
          infoLink |-> items[1].volumeInfo.infoLink]>>
         \o BookEntries(Tail(items))

\* search_google_books once the response is known
search_google_books(resp, max_results) ==
  IF resp.raised \/ HttpError(resp.status) THEN <<>>
  ELSE BookEntries(Take(resp.items, max_results))

-----------------------------------------------------------------------------
(* Free PYQs from Examsnet and Selfstudys                                  *)
(*                                                                         *)
(* An archive page response is [raised, status, anchors], anchors the <a>  *)
(* elements of the page in document order.  An anchor is [href, texts],    *)
(* href Optional (an <a> may have no href attribute).                      *)

examsnet_base == "https://www.examsnet.com"
selfstudys_base == "https://www.selfstudys.com"

ExamsnetNeetUrl ==
  examsnet_base \o "/exams/neet-chapterwise-previous-question-papers-online"
ExamsnetJeeUrl ==
  examsnet_base \o "/exams/jee-mains-chapterwise-previous-year-questions-online"
SelfstudysNeetUrl ==
  selfstudys_base \o "/books/neet-previous-year-paper/page/year-wise"
SelfstudysJeeUrl ==
  selfstudys_base \o "/books/jee-main-previous-year-paper/page/year-wise"

\* the candidate URLs one site contributes
SiteLinks(exam_query_lower, site, neet_url, jee_url) ==
  IF Contains("neet", exam_query_lower)
  THEN <<[site |-> site, exam |-> "NEET", link |-> neet_url]>>
  ELSE IF Contains("jee", exam_query_lower)
  THEN <<[site |-> site, exam |-> "JEE Mains", link |-> jee_url]>>
  ELSE <<>>

\* the registration without exam_query.lower()
RegisterLinks_case_sensitive(q) ==
  SiteLinks(q, "Examsnet", ExamsnetNeetUrl, ExamsnetJeeUrl)
    \o SiteLinks(q, "Selfstudys", SelfstudysNeetUrl, SelfstudysJeeUrl)

\* the list `links` of fetch_free_pyqs_links before the scraping loop
RegisterLinks(q) ==
  LET exam_query_lower == Lower(q)
  IN  SiteLinks(exam_query_lower, "Examsnet", ExamsnetNeetUrl, ExamsnetJeeUrl)
        \o SiteLinks(exam_query_lower, "Selfstudys",
                     SelfstudysNeetUrl, SelfstudysJeeUrl)

\* the test that keeps an anchor
KeepAnchor(href, text) ==
  \/ Contains("pdf", Lower(href))
  \/ Contains("previous", Lower(text))
  \/ Contains("paper", Lower(text))

\* the link stored for a kept anchor found on page page_url
ResolveHref(page_url, href) ==
  IF ~StartsWith(href, "http")
  THEN RStrip(page_url, {"/"}) \o "/" \o LStrip(href, {"/"})
  ELSE href

\* for a in soup.find_all("a", href=True): ... scraped_links.append(...)
RECURSIVE ScrapePage(_, _)
ScrapePage(item, anchors) ==
  IF Len(anchors) = 0 THEN <<>>
  ELSE LET a == anchors[1]
           text == GetTextStripped(a)
       IN  (IF a.href.some /\ KeepAnchor(a.href.val, text)
            THEN <<[site |-> item.site, exam |-> item.exam, title |-> text,
                    link |-> ResolveHref(item.link, a.href.val)]>>
            ELSE <<>>)
             \o ScrapePage(item, Tail(anchors))

\* one iteration of `for item in links`: try ... except Exception: continue
ScrapeStep(scraped, item, resp) ==
  IF resp.raised \/ HttpError(resp.status) THEN scraped
  ELSE scraped \o ScrapePage(item, resp.anchors)

\* return scraped_links, the slice forgotten
PyqsResult_unbounded(scraped) == scraped

\* return scraped_links[:5]
PyqsResult(scraped) == Take(scraped, MaxPyqs)

-----------------------------------------------------------------------------
(* The outside world: the bounded sets the inputs and responses come from  *)

\* most heading sections in a generated Wikipedia page
MaxSections == 2
\* most <a> elements on a generated archive page
MaxAnchors == 4

Universal == "fetch_exam_info_universal"
WikiOnly == "find_relevant_wiki_info"
PyqsOnly == "fetch_free_pyqs_links"

Queries(e) ==
  IF e = Universal THEN {"NEET", "JEE Main 2024", "CLAT"}
  ELSE IF e = WikiOnly THEN {"CUET"}
  ELSE {"NEET 2025", "JEE Main 2024", "jee or neet", "Jee", "CLAT", ""}

El(tag, texts) == [tag |-> tag, texts |-> texts]

\* what the search endpoint may answer to the search string q
RaisedSearch == [raised |-> TRUE, status |-> 0, results |-> <<>>]
SearchResponses(q) ==
  { RaisedSearch,
    [raised |-> FALSE, status |-> 503, results |-> <<"Stale " \o q>>],
    [raised |-> FALSE, status |-> 200, results |-> <<>>],
    [raised |-> FALSE, status |-> 200, results |-> <<"About " \o q>>],
    [raised |-> FALSE, status |-> 200,
     results |-> <<"Index of " \o q, "About " \o q>>] }

Leads ==
  { <<>>,
    <<El("p", <<"The test is ", "an entrance exam.">>)>>,
    <<El("p", <<"\n ">>), El("p", <<"Second paragraph.\r\n">>)>>,
    <<El("table", <<"Infobox">>), El("div", <<"Hatnote">>)>> }

Headings ==
  { El("h2", <<"Exam pattern">>), El("h3", <<"\tFormat\n">>),
    El("h2", <<"Paper ", "structure">>), El("h2", <<"Syllabus">>),
    El("h2", <<"Summary">>), El("h2", <<"Introduction">>),
    El("h2", <<"History">>), El("h2", <<"Curriculum">>),
    El("h4", <<"Scheme of examination">>), El("h2", <<"Structure">>) }

Bodies ==
  { <<>>,
    <<El("p", <<"Alpha.">>)>>,
    <<El("span", <<"note">>), El("ul", <<"Physics", "Chemistry">>),
      El("p", <<"">>), El("div", <<"\nBeta\t">>)>> }

Blocks == { <<h>> \o b : h \in Headings, b \in Bodies }

RECURSIVE Flatten(_)
Flatten(seqs) == IF Len(seqs) = 0 THEN <<>> ELSE seqs[1] \o Flatten(Tail(seqs))

\* every page made of a lead and at most MaxSections heading sections
GeneratedDocs ==
  { lead \o Flatten(bs) :
      lead \in Leads, bs \in UNION { [1..n -> Blocks] : n \in 0..MaxSections } }

SampleDocs ==
  { <<El("p", <<"The test is ", "an entrance exam.">>),
      El("h2", <<"Syllabus">>), El("ul", <<"Physics", "Chemistry">>),
      El("h2", <<"Exam pattern">>), El("p", <<"Alpha.">>)>>,
    <<El("h2", <<"History">>), El("p", <<"Alpha.">>)>> }

\* the generated pages are served for one title, the sample pages for the rest
Docs(e, t) ==
  IF e = WikiOnly /\ t = "About CUET exam" THEN GeneratedDocs ELSE SampleDocs

\* what the page endpoint may answer for the title t
RaisedPage == [raised |-> TRUE, status |-> 0, html |-> <<>>]
WikiPageResponses(e, t) ==
  { RaisedPage,
    [raised |-> FALSE, status |-> 404,
     html |-> <<El("h1", <<"Summary">>), El("p", <<"Not found.">>)>>] }
  \cup { [raised |-> FALSE, status |-> 200, html |-> d] : d \in Docs(e, t) }

RaisedItems == [raised |-> TRUE, items |-> <<>>]
VideoResponses ==
  { RaisedItems,
    [raised |-> FALSE, items |-> <<>>],
    [raised |-> FALSE,
     items |-> <<[title |-> "Crash course", videoId |-> "v1"],
                 [title |-> "Strategy", videoId |-> "v2"]>>] }
PlaylistResponses ==
  { RaisedItems,
    [raised |-> FALSE, items |-> <<>>],
    [raised |-> FALSE,
     items |-> <<[title |-> "Full playlist", playlistId |-> "PL1"]>>] }

Volume(n) ==
  [id |-> n,
   volumeInfo |-> [title |-> Some("Guide"), authors |-> Some(<<"A. Author">>),
                   publisher |-> None, infoLink |-> Some("https://books/" \o n)]]
BooksResponses ==
  { [raised |-> TRUE, status |-> 0, items |-> <<>>],
    [raised |-> FALSE, status |-> 429, items |-> <<Volume("b0")>>],
    [raised |-> FALSE, status |-> 200, items |-> <<>>],
    [raised |-> FALSE, status |-> 200,
     items |-> <<Volume("b1"), Volume("b2"), Volume("b3"), Volume("b4"),
                 Volume("b5"), Volume("b6"), Volume("b7")>>] }

AnchorPool ==
  << [href |-> Some("papers/2023.pdf"), texts |-> <<"2023">>],
     [href |-> Some("https://cdn.example.com/neet-2022.PDF"),
      texts |-> <<"\n Solved 2022\t">>],
     [href |-> Some("/previous-year/2021"), texts |-> <<"Previous ", "Year 2021">>],
     [href |-> Some("about.html"), texts |-> <<"About us">>],
     [href |-> None, texts |-> <<"Sample paper">>],
     [href |-> Some("mock/"), texts |-> <<"Model Paper">>],
     [href |-> Some("http://old.example.com/login"), texts |-> <<"Login">>] >>

\* the elements of pool at the positions in idx, in pool order
RECURSIVE Pick(_, _, _)
Pick(pool, idx, i) ==
  IF i > Len(pool) THEN <<>>
  ELSE (IF i \in idx THEN <<pool[i]>> ELSE <<>>) \o Pick(pool, idx, i + 1)

\* every page holding at most MaxAnchors anchors of the pool
GeneratedPages ==
  { Pick(AnchorPool, idx, 1) :
      idx \in { x \in SUBSET (1..Len(AnchorPool)) : Cardinality(x) <= MaxAnchors } }

SamplePages == { Pick(AnchorPool, {1, 2, 3, 4, 6}, 1) }

RaisedArchive == [raised |-> TRUE, status |-> 0, anchors |-> <<>>]
ArchiveResponses(e) ==
  { RaisedArchive,
    [raised |-> FALSE, status |-> 404, anchors |-> Pick(AnchorPool, {1}, 1)] }
  \cup { [raised |-> FALSE, status |-> 200, anchors |-> a] :
           a \in (IF e = PyqsOnly THEN GeneratedPages ELSE SamplePages) }

-----------------------------------------------------------------------------
(* The program                                                             *)

Call(api, arg, resp) == [api |-> api, arg |-> arg, resp |-> resp]

\* where control goes when find_relevant_wiki_info returns
AfterWiki == IF entry = Universal THEN "videos" ELSE "done"

InitEntry(e) ==
  /\ entry = e
  /\ exam_query \in Queries(e)
  /\ include_videos \in (IF e = Universal THEN BOOLEAN ELSE {TRUE})
  /\ include_books \in (IF e = Universal THEN BOOLEAN ELSE {TRUE})
  /\ youtube_enabled \in (IF e = Universal THEN BOOLEAN ELSE {FALSE})
  /\ pc = IF e = PyqsOnly THEN "pyqs" ELSE "wiki_search_exam"
  /\ calls = <<>>
  /\ title = None
  /\ wikipedia = EmptyWikiInfo
  /\ videos = <<>>
  /\ playlist = None
  /\ books = <<>>
  /\ links = <<>>
  /\ scraped_links = <<>>
  /\ free_pyqs = <<>>

\* line 87 with both searches always made: the bare search follows the
\* suffixed one whatever it returned
WikiSearchExam_eager ==
  /\ pc = "wiki_search_exam"
  /\ \E resp \in SearchResponses(exam_query \o " exam") :
       /\ calls' = Append(calls, Call("wiki_search", exam_query \o " exam", resp))
       /\ title' = wiki_search_title(resp)
       /\ pc' = "wiki_search_bare"
  /\ UNCHANGED <<entry, exam_query, include_videos, include_books,
                 youtube_enabled, wikipedia, videos, playlist, books,
                 links, scraped_links, free_pyqs>>

\* find_relevant_wiki_info, line 87, left operand:
\* wiki_search_title(query + " exam")
WikiSearchExam ==
  /\ pc = "wiki_search_exam"
  /\ \E resp \in SearchResponses(exam_query \o " exam") :
       LET t == wiki_search_title(resp)
       IN  /\ calls' = Append(calls, Call("wiki_search", exam_query \o " exam", resp))
           /\ title' = t
           /\ pc' = IF Truthy(t) THEN "wiki_get_html" ELSE "wiki_search_bare"
  /\ UNCHANGED <<entry, exam_query, include_videos, include_books,
                 youtube_enabled, wikipedia, videos, playlist, books,
                 links, scraped_links, free_pyqs>>

\* line 87, right operand, evaluated when the left one is falsy; then
\* "if title is None: return out"
WikiSearchBare ==
  /\ pc = "wiki_search_bare"
  /\ \E resp \in SearchResponses(exam_query) :
       LET t == wiki_search_title(resp)
       IN  /\ calls' = Append(calls, Call("wiki_search", exam_query, resp))
           /\ title' = t
           /\ wikipedia' = WikiInfo(t, None)
           /\ pc' = IF t.some THEN "wiki_get_html" ELSE AfterWiki
  /\ UNCHANGED <<entry, exam_query, include_videos, include_books,
                 youtube_enabled, videos, playlist, books,
                 links, scraped_links, free_pyqs>>

\* lines 90-119: wiki_get_html(title), section extraction, classification
WikiGetHtml ==
  /\ pc = "wiki_get_html"
  /\ \E resp \in WikiPageResponses(entry, title.val) :
       /\ calls' = Append(calls, Call("wiki_page", wiki_page_url(title.val), resp))
       /\ wikipedia' = WikiInfo(title, wiki_get_html(resp))
  /\ pc' = AfterWiki
  /\ UNCHANGED <<entry, exam_query, include_videos, include_books,
                 youtube_enabled, title, videos, playlist, books,
                 links, scraped_links, free_pyqs>>

\* the response set of a request that is made only when cond holds
Asked(cond, responses) == IF cond THEN responses ELSE {None}

\* line 266 with the try/except of search_youtube_videos missing: an error
\* of the request ends the whole call
SearchVideos_propagating ==
  /\ pc = "videos"
  /\ \E resp \in Asked(include_videos /\ youtube_enabled, VideoResponses) :
       IF include_videos /\ youtube_enabled
       THEN /\ calls' = Append(calls, Call("youtube_videos",
                                           exam_query \o " preparation", resp))
            /\ videos' = search_youtube_videos(resp)
            /\ pc' = IF resp.raised THEN "done" ELSE "playlist"
       ELSE /\ calls' = calls
            /\ videos' = <<>>
            /\ pc' = "playlist"
  /\ UNCHANGED <<entry, exam_query, include_videos, include_books,
                 youtube_enabled, title, wikipedia, playlist, books,
                 links, scraped_links, free_pyqs>>

\* line 266: search_youtube_videos(exam_query, max_results=6) if include_videos
SearchVideos ==
  /\ pc = "videos"
  /\ \E resp \in Asked(include_videos /\ youtube_enabled, VideoResponses) :
       IF include_videos /\ youtube_enabled
       THEN /\ calls' = Append(calls, Call("youtube_videos",
                                           exam_query \o " preparation", resp))
            /\ videos' = search_youtube_videos(resp)
       ELSE /\ calls' = calls
            /\ videos' = <<>>
  /\ pc' = "playlist"
  /\ UNCHANGED <<entry, exam_query, include_videos, include_books,
                 youtube_enabled, title, wikipedia, playlist, books,
                 links, scraped_links, free_pyqs>>

\* line 267: search_youtube_playlist(exam_query) if include_videos
SearchPlaylist ==
  /\ pc = "playlist"
  /\ \E resp \in Asked(include_videos /\ youtube_enabled, PlaylistResponses) :
       IF include_videos /\ youtube_enabled
       THEN /\ calls' = Append(calls, Call("youtube_playlist",
                                  exam_query \o " preparation playlist", resp))
            /\ playlist' = search_youtube_playlist(resp)
       ELSE /\ calls' = calls
            /\ playlist' = None
  /\ pc' = "books"
  /\ UNCHANGED <<entry, exam_query, include_videos, include_books,
                 youtube_enabled, title, wikipedia, videos, books,
                 links, scraped_links, free_pyqs>>

BooksQuery(q) ==
  q \o " preparation OR " \o q \o " syllabus OR " \o q \o " guide"

\* line 268: search_google_books(exam_query, max_results=6) if include_books
SearchBooks ==
  /\ pc = "books"
  /\ \E resp \in Asked(include_books, BooksResponses) :
       IF include_books
       THEN /\ calls' = Append(calls, Call("google_books",
                                           BooksQuery(exam_query), resp))
            /\ books' = search_google_books(resp, MaxResults)
       ELSE /\ calls' = calls
            /\ books' = <<>>
  /\ pc' = "pyqs"
  /\ UNCHANGED <<entry, exam_query, include_videos, include_books,
                 youtube_enabled, title, wikipedia, videos, playlist,
                 links, scraped_links, free_pyqs>>

\* line 269 without "if include_books": the paper links are always scraped
RegisterPyqLinks_ungated ==
  /\ pc = "pyqs"
  /\ LET registered == RegisterLinks(exam_query)
     IN  /\ links' = registered
         /\ pc' = IF Len(registered) > 0 THEN "pyq_fetch" ELSE "done"
         /\ free_pyqs' = PyqsResult(<<>>)
  /\ scraped_links' = <<>>
  /\ UNCHANGED <<entry, exam_query, include_videos, include_books,
                 youtube_enabled, calls, title, wikipedia, videos, playlist,
                 books>>

\* line 269 and fetch_free_pyqs_links lines 215-237: the candidate URLs are
\* registered; with none registered the loop is empty and [] is returned
RegisterPyqLinks ==
  /\ pc = "pyqs"
  /\ LET registered == IF entry = Universal /\ ~include_books
                       THEN <<>> ELSE RegisterLinks(exam_query)
     IN  /\ links' = registered
         /\ pc' = IF Len(registered) > 0 THEN "pyq_fetch" ELSE "done"
         /\ free_pyqs' = PyqsResult(<<>>)
  /\ scraped_links' = <<>>
  /\ UNCHANGED <<entry, exam_query, include_videos, include_books,
                 youtube_enabled, calls, title, wikipedia, videos, playlist,
                 books>>

\* the registered URLs already requested
PagesFetched == Cardinality({ i \in 1..Len(calls) : calls[i].api = "archive_page" })

\* lines 238-255 with the try around the whole loop: the first failed fetch
\* ends the loop
FetchPyqPage_break ==
  /\ pc = "pyq_fetch"
  /\ LET item == links[PagesFetched + 1]
     IN  \E resp \in ArchiveResponses(entry) :
           /\ calls' = Append(calls, Call("archive_page", item.link, resp))
           /\ scraped_links' = ScrapeStep(scraped_links, item, resp)
           /\ IF PagesFetched + 1 = Len(links)
                 \/ resp.raised \/ HttpError(resp.status)
              THEN /\ free_pyqs' = PyqsResult(scraped_links')
                   /\ pc' = "done"
              ELSE /\ free_pyqs' = free_pyqs
                   /\ pc' = pc
  /\ UNCHANGED <<entry, exam_query, include_videos, include_books,
                 youtube_enabled, title, wikipedia, videos, playlist, books,
                 links>>

\* lines 238-255: one iteration of the loop over links; after the last one
\* the first five scraped links are returned
FetchPyqPage ==
  /\ pc = "pyq_fetch"
  /\ LET item == links[PagesFetched + 1]
     IN  \E resp \in ArchiveResponses(entry) :
           /\ calls' = Append(calls, Call("archive_page", item.link, resp))
           /\ scraped_links' = ScrapeStep(scraped_links, item, resp)
           /\ IF PagesFetched + 1 = Len(links)
              THEN /\ free_pyqs' = PyqsResult(scraped_links')
                   /\ pc' = "done"
              ELSE /\ free_pyqs' = free_pyqs
                   /\ pc' = pc
  /\ UNCHANGED <<entry, exam_query, include_videos, include_books,
                 youtube_enabled, title, wikipedia, videos, playlist, books,
                 links>>

NextWiki == WikiSearchExam \/ WikiSearchBare \/ WikiGetHtml
NextPyqs == RegisterPyqLinks \/ FetchPyqPage
Next ==
  \/ WikiSearchExam
  \/ WikiSearchBare
  \/ WikiGetHtml
  \/ SearchVideos
  \/ SearchPlaylist
  \/ SearchBooks
  \/ RegisterPyqLinks
  \/ FetchPyqPage

Init == InitEntry(Universal)
InitWiki == InitEntry(WikiOnly)
InitPyqs == InitEntry(PyqsOnly)

\* one call of fetch_exam_info_universal
Spec == Init /\ [][Next]_vars
\* the same, with the scheduling the interpreter gives a sequential program:
\* a step that can be taken is taken (every request returns or times out)
FairSpec == Spec /\ WF_vars(Next)
\* one call of find_relevant_wiki_info
SpecWiki == InitWiki /\ [][NextWiki]_vars
\* one call of fetch_free_pyqs_links
SpecPyqs == InitPyqs /\ [][NextPyqs]_vars

\* the record fetch_exam_info_universal returns
Result ==
  [query |-> exam_query, wikipedia |-> wikipedia, videos |-> videos,
   playlist |-> playlist, books |-> books, free_pyqs |-> free_pyqs]

-----------------------------------------------------------------------------
(* Vocabulary of the properties                                            *)

Done == pc = "done"

CallsOf(api) == SelectSeq(calls, LAMBDA c : c.api = api)

\* the request got no usable answer: a transport error, or a status the
\* code rejects
CallFailed(c) ==
  IF c.api \in {"youtube_videos", "youtube_playlist"} THEN c.resp.raised
  ELSE IF c.api = "wiki_page" THEN c.resp.raised \/ c.resp.status # 200
  ELSE c.resp.raised \/ (400 <= c.resp.status /\ c.resp.status < 600)

AllCallsFailed == \A i \in 1..Len(calls) : CallFailed(calls[i])

\* position of a sub-lookup in the order Wikipedia, videos, playlist, books,
\* paper links
Rank(api) ==
  CASE api \in {"wiki_search", "wiki_page"} -> 1
    [] api = "youtube_videos" -> 2
    [] api = "youtube_playlist" -> 3
    [] api = "google_books" -> 4
    [] api = "archive_page" -> 5

\* the entries the archive pages requested so far contribute, in scrape
\* order: the matched anchors of every page that was fetched successfully
RECURSIVE Combined(_)
Combined(n) ==
  IF n = 0 THEN <<>>
  ELSE LET pages == CallsOf("archive_page")
       IN  Combined(n - 1)
             \o (IF CallFailed(pages[n]) THEN <<>>
                 ELSE ScrapePage(links[n], pages[n].resp.anchors))

-----------------------------------------------------------------------------
(* C1: fetch_exam_info_universal always runs to its return, whatever the   *)
(* external calls do (no exception escapes), and when every external call  *)
(* failed the record it returns has query equal to the input, a Wikipedia  *)
(* record with title, summary, syllabus and pattern absent and no          *)
(* sections, videos, books and free_pyqs empty and playlist absent.        *)
C1_AllFailWellFormed ==
  /\ <>Done
  /\ [](Done /\ AllCallsFailed =>
          Result = [query |-> exam_query,
                    wikipedia |-> [title |-> None, summary |-> None,
                                   syllabus |-> None, pattern |-> None,
                                   other_sections |-> <<>>],
                    videos |-> <<>>, playlist |-> None, books |-> <<>>,
                    free_pyqs |-> <<>>])

\* every sub-lookup was asked and every one of the seven requests failed
C1_Witness ==
  /\ Done /\ AllCallsFailed /\ Len(calls) = 7
  /\ \E i \in 1..Len(calls) : ~calls[i].resp.raised

-----------------------------------------------------------------------------
(* C7: Wikipedia resolution is invoked on every call; no video-platform    *)
(* request is issued and videos is empty and playlist absent unless        *)
(* include_videos; no books or archive request is issued and books and     *)
(* free_pyqs are empty unless include_books; the requests are issued in    *)
(* the order Wikipedia, videos, playlist, books, paper links.              *)
C7_FlagGatingAndOrder ==
  /\ \A i \in 1..Len(calls) : \A j \in i..Len(calls) :
       Rank(calls[i].api) <= Rank(calls[j].api)
  /\ ~include_videos =>
       /\ CallsOf("youtube_videos") = <<>> /\ CallsOf("youtube_playlist") = <<>>
       /\ videos = <<>> /\ playlist = None
  /\ ~include_books =>
       /\ CallsOf("google_books") = <<>> /\ CallsOf("archive_page") = <<>>
       /\ books = <<>> /\ free_pyqs = <<>>
  /\ pc # "wiki_search_exam" =>
       /\ Len(calls) >= 1
       /\ calls[1].api = "wiki_search"
  /\ (Done /\ include_videos /\ youtube_enabled) =>
       Len(CallsOf("youtube_videos")) = 1 /\ Len(CallsOf("youtube_playlist")) = 1
  /\ (Done /\ include_books) => Len(CallsOf("google_books")) = 1

\* books and paper links were looked up and produced entries while the
\* video lookups were gated off
C7_Witness ==
  /\ Done /\ ~include_videos /\ include_books /\ youtube_enabled
  /\ Len(books) > 0 /\ Len(free_pyqs) > 0

-----------------------------------------------------------------------------
(* C8: a failed sub-lookup leaves only its own field empty or absent;      *)
(* every other sub-lookup that the flags allow is still invoked, and its   *)
(* field is what its own responses alone determine.                        *)
C8_FailureIsolation ==
  Done =>
    LET searches == CallsOf("wiki_search")
        pages == CallsOf("wiki_page")
        vs == CallsOf("youtube_videos")
        ps == CallsOf("youtube_playlist")
        bs == CallsOf("google_books")
        as == CallsOf("archive_page")
    IN  /\ Len(searches) >= 1
        /\ (\A i \in 1..Len(searches) : CallFailed(searches[i])) =>
             wikipedia = EmptyWikiInfo
        /\ Len(pages) = 1 =>
             /\ wikipedia = WikiInfo(title, wiki_get_html(pages[1].resp))
             /\ CallFailed(pages[1]) =>
                  wikipedia = [EmptyWikiInfo EXCEPT !.title = title]
        /\ (include_videos /\ youtube_enabled) =>
             /\ Len(vs) = 1 /\ Len(ps) = 1
             /\ videos = IF CallFailed(vs[1]) THEN <<>>
                         ELSE search_youtube_videos(vs[1].resp)
             /\ playlist = IF CallFailed(ps[1]) THEN None
                           ELSE search_youtube_playlist(ps[1].resp)
        /\ include_books =>
             /\ Len(bs) = 1
             /\ books = IF CallFailed(bs[1]) THEN <<>>
                        ELSE search_google_books(bs[1].resp, 6)
             /\ Len(as) = Len(RegisterLinks(exam_query))
             /\ free_pyqs = Take(Combined(Len(as)), 5)
             /\ (\A i \in 1..Len(as) : CallFailed(as[i])) => free_pyqs = <<>>

\* the video search failed, and the playlist, the books and the paper links
\* were still looked up and found
C8_Witness ==
  /\ Done /\ include_videos /\ youtube_enabled /\ include_books
  /\ CallFailed(CallsOf("youtube_videos")[1])
  /\ \A i \in 1..Len(CallsOf("wiki_search")) : CallFailed(CallsOf("wiki_search")[i])
  /\ playlist # None /\ Len(books) > 0 /\ Len(free_pyqs) > 0

-----------------------------------------------------------------------------
(* Vocabulary of the Wikipedia properties                                  *)

\* the page was fetched with status 200
PageFetched ==
  /\ Len(CallsOf("wiki_page")) = 1
  /\ ~CallFailed(CallsOf("wiki_page")[1])

\* the fetched page without its tables
FetchedSoup == DecomposeTables(CallsOf("wiki_page")[1].resp.html)

\* the positions of the headings named name (stripped and lowercased)
HeadingsNamed(soup, name) ==
  { i \in 1..Len(soup) :
      IsHeading(soup[i].tag) /\ Lower(Strip(GetText(soup[i]))) = name }

\* the positions of the headings named name that have content
SectionsNamed(soup, name) ==
  { i \in HeadingsNamed(soup, name) : Len(ContentParts(soup, i + 1)) > 0 }

SectionContent(soup, i) == Join(ContentParts(soup, i + 1), "\n\n")

MinOf(S) == CHOOSE n \in S : \A m \in S : n <= m

\* the two-tier choice: the content under the first of labels (in the order
\* of labels) that is a key of sections; with no label a key, the content of
\* the first section (in document order) whose heading contains one of words
TwoTier(sections, labels, words) ==
  LET present == { n \in 1..Len(labels) :
                     \E i \in 1..Len(sections) : sections[i].k = labels[n] }
      containing == { i \in 1..Len(sections) :
                        \E w \in 1..Len(words) : Contains(words[w], sections[i].k) }
  IN  IF present # {}
      THEN Some(sections[CHOOSE i \in 1..Len(sections) :
                           sections[i].k = labels[MinOf(present)]].v)
      ELSE IF containing # {} THEN Some(sections[MinOf(containing)].v)
      ELSE None

-----------------------------------------------------------------------------
(* C4: classification is two-tier with the exact labels first.  With a     *)
(* canonical pattern label among the section keys, pattern is the content  *)
(* of the earliest such label in the order of the label list, whatever the *)
(* document order and whatever other headings contain; the first heading   *)
(* in document order containing one of the substrings is used only when no *)
(* canonical label is a key.  The same for syllabus.                       *)
C4_ExactLabelsFirst ==
  (Done /\ PageFetched) =>
    /\ wikipedia.pattern =
         TwoTier(wikipedia.other_sections,
                 <<"exam pattern", "pattern", "format", "structure", "scheme">>,
                 <<"pattern", "structure", "format", "scheme", "paper">>)
    /\ wikipedia.syllabus =
         TwoTier(wikipedia.other_sections,
                 <<"syllabus", "curriculum", "exam syllabus",
                   "syllabus and exam pattern", "syllabus and structure">>,
                 <<"syllabus", "curriculum", "subjects", "paper", "exam">>)

\* "format" comes before "exam pattern" in the document, with another
\* content, and the pattern is the content of "exam pattern"
C4_Witness ==
  /\ Done /\ PageFetched
  /\ \E i, j \in 1..Len(wikipedia.other_sections) :
       /\ i < j
       /\ wikipedia.other_sections[i].k = "format"
       /\ wikipedia.other_sections[j].k = "exam pattern"
       /\ wikipedia.other_sections[i].v # wikipedia.other_sections[j].v
       /\ wikipedia.pattern = Some(wikipedia.other_sections[j].v)

-----------------------------------------------------------------------------
(* C6 as stated: on a fetched page with no heading named "summary" or      *)
(* "introduction" the summary is the text of the first paragraph; when a   *)
(* heading named "summary" has content, that content is the summary.       *)
C6_SummaryIsFirstParagraph ==
  (Done /\ PageFetched) =>
    LET soup == FetchedSoup
    IN  /\ ( /\ HeadingsNamed(soup, "summary") = {}
             /\ HeadingsNamed(soup, "introduction") = {}
             /\ \E i \in 1..Len(soup) : soup[i].tag = "p" )
           => wikipedia.summary = Some(LeadPara(soup))
        /\ SectionsNamed(soup, "summary") # {}
           => \E i \in SectionsNamed(soup, "summary") :
                wikipedia.summary = Some(SectionContent(soup, i))

(* C6 amended: on such a page the summary is the text of the first         *)
(* paragraph when that text is not empty, and absent when the page has no  *)
(* paragraph or its first paragraph has no text; when a heading named      *)
(* "summary" has content, that content is the summary.                     *)
C6_SummaryFallback ==
  (Done /\ PageFetched) =>
    LET soup == FetchedSoup
    IN  /\ ( /\ HeadingsNamed(soup, "summary") = {}
             /\ HeadingsNamed(soup, "introduction") = {} )
           => wikipedia.summary =
                IF LeadPara(soup) # "" THEN Some(LeadPara(soup)) ELSE None
        /\ SectionsNamed(soup, "summary") # {}
           => \E i \in SectionsNamed(soup, "summary") :
                wikipedia.summary = Some(SectionContent(soup, i))

\* a page with sections, none named summary or introduction, whose first
\* paragraph became the summary
C6_Witness ==
  /\ Done /\ PageFetched
  /\ HeadingsNamed(FetchedSoup, "summary") = {}
  /\ HeadingsNamed(FetchedSoup, "introduction") = {}
  /\ Len(wikipedia.other_sections) > 2
  /\ LeadPara(FetchedSoup) # ""
  /\ wikipedia.summary = Some(LeadPara(FetchedSoup))

-----------------------------------------------------------------------------
(* C9: the first search is for the query suffixed by " exam"; a second     *)
(* search, for the bare query, is issued exactly when the first returned   *)
(* no result; the resolved title is the first result of the first of the   *)
(* two searches that returned results, and none when neither did.          *)
Returned(c) ==
  /\ ~c.resp.raised
  /\ ~(400 <= c.resp.status /\ c.resp.status < 600)
  /\ Len(c.resp.results) > 0

C9_TitleResolutionOrder ==
  LET searches == CallsOf("wiki_search")
  IN  /\ Len(searches) <= 2
      /\ Len(calls) >= 1 =>
           calls[1].api = "wiki_search" /\ calls[1].arg = exam_query \o " exam"
      /\ Len(searches) = 2 =>
           /\ calls[2].api = "wiki_search" /\ calls[2].arg = exam_query
           /\ ~Returned(calls[1])
      /\ pc \in {"wiki_get_html", "done"} =>
           IF Returned(calls[1])
           THEN Len(searches) = 1 /\ title = Some(calls[1].resp.results[1])
           ELSE /\ Len(searches) = 2
                /\ title = IF Returned(calls[2])
                           THEN Some(calls[2].resp.results[1]) ELSE None

\* the suffixed search failed with an error status and the bare search
\* resolved the title
C9_Witness ==
  /\ Done /\ Len(CallsOf("wiki_search")) = 2 /\ PageFetched
  /\ calls[1].resp.status = 503
  /\ title = Some("Index of CUET")

-----------------------------------------------------------------------------
(* Vocabulary of the paper-link properties                                 *)

Urls == [i \in 1..Len(links) |-> links[i].link]

\* the scraped entries of one site
RECURSIVE EntriesOf(_, _)
EntriesOf(entries, site) ==
  IF Len(entries) = 0 THEN <<>>
  ELSE (IF entries[1].site = site THEN <<entries[1]>> ELSE <<>>)
         \o EntriesOf(Tail(entries), site)

\* RFC 3986 reference resolution of href against base, for references
\* without dot segments: a network-path reference keeps the scheme, an
\* absolute-path reference keeps scheme and authority, a relative-path
\* reference replaces the last segment of the base path
AuthorityStart(base) ==
  3 + MinOf({ i \in 1..(Len(base) - 2) : SubSeq(base, i, i + 2) = "://" })
PathStart(base) ==
  MinOf({ i \in AuthorityStart(base)..(Len(base) + 1) :
            i = Len(base) + 1 \/ SubSeq(base, i, i) = "/" })
LastSlash(base) ==
  CHOOSE i \in PathStart(base)..Len(base) :
    /\ SubSeq(base, i, i) = "/"
    /\ \A j \in (i + 1)..Len(base) : SubSeq(base, j, j) # "/"
UrlJoin(base, href) ==
  IF href = "" THEN base
  ELSE IF StartsWith(href, "//")
  THEN SubSeq(base, 1, AuthorityStart(base) - 3) \o href
  ELSE IF StartsWith(href, "/")
  THEN SubSeq(base, 1, PathStart(base) - 1) \o href
  ELSE IF PathStart(base) > Len(base) THEN base \o "/" \o href
  ELSE SubSeq(base, 1, LastSlash(base)) \o href

-----------------------------------------------------------------------------
(* C2: the returned list has at most 5 entries and is the first min(5, n)  *)
(* of the n matched anchors in scrape order: Examsnet's in page order,     *)
(* then Selfstudys' in page order.                                         *)
C2_FirstFiveInScrapeOrder ==
  Done =>
    LET combined == Combined(Len(CallsOf("archive_page")))
        n == Len(combined)
    IN  /\ Len(free_pyqs) <= 5
        /\ Len(free_pyqs) = IF n < 5 THEN n ELSE 5
        /\ \A i \in 1..Len(free_pyqs) : free_pyqs[i] = combined[i]
        /\ \A i \in 1..Len(free_pyqs) : \A j \in i..Len(free_pyqs) :
             free_pyqs[i].site = "Selfstudys" => free_pyqs[j].site = "Selfstudys"

\* more than five anchors matched over the two pages and five are returned,
\* the last of them from the second site
C2_Witness ==
  /\ Done /\ Len(Combined(Len(CallsOf("archive_page")))) > 5
  /\ Len(free_pyqs) = 5
  /\ free_pyqs[1].site = "Examsnet" /\ free_pyqs[5].site = "Selfstudys"

-----------------------------------------------------------------------------
(* C3: a query containing "neet" (any case) registers exactly the NEET     *)
(* archive URL of each site, also when it contains "jee"; otherwise one    *)
(* containing "jee" registers exactly the JEE URL of each site; a query    *)
(* with neither registers nothing, fetches no page and yields no link.     *)
C3_KeywordGating ==
  LET neet == Contains("neet", Lower(exam_query))
      jee == Contains("jee", Lower(exam_query))
  IN  /\ exam_query \in {"NEET 2025", "jee or neet"} => neet
      /\ exam_query \in {"JEE Main 2024", "Jee"} => (~neet /\ jee)
      /\ exam_query \in {"CLAT", ""} => (~neet /\ ~jee)
      /\ pc # "pyqs" =>
           /\ neet =>
                Urls = <<"https://www.examsnet.com/exams/neet-chapterwise-previous-question-papers-online",
                         "https://www.selfstudys.com/books/neet-previous-year-paper/page/year-wise">>
           /\ (~neet /\ jee) =>
                Urls = <<"https://www.examsnet.com/exams/jee-mains-chapterwise-previous-year-questions-online",
                         "https://www.selfstudys.com/books/jee-main-previous-year-paper/page/year-wise">>
           /\ (~neet /\ ~jee) =>
                Urls = <<>> /\ calls = <<>> /\ Done /\ free_pyqs = <<>>
           /\ \A i \in 1..Len(calls) :
                \E j \in 1..Len(Urls) : calls[i].arg = Urls[j]

\* "JEE Main 2024" had both JEE pages fetched
C3_Witness ==
  /\ Done /\ exam_query = "JEE Main 2024" /\ Len(calls) = 2
  /\ calls[1].arg = ExamsnetJeeUrl /\ calls[2].arg = SelfstudysJeeUrl
  /\ Len(free_pyqs) > 0

-----------------------------------------------------------------------------
(* C5: every kept anchor with a relative href is stored with the href      *)
(* resolved against the URL of the page it was scraped from, and one whose *)
(* href starts with "http" with the href unchanged.                        *)
C5_HrefResolvedAgainstPage ==
  LET pages == CallsOf("archive_page")
  IN  \A i \in 1..Len(pages) :
        ~CallFailed(pages[i]) =>
          \A k \in 1..Len(pages[i].resp.anchors) :
            LET a == pages[i].resp.anchors[k]
            IN  (a.href.some /\ KeepAnchor(a.href.val, GetTextStripped(a))) =>
                  \E e \in 1..Len(scraped_links) :
                    /\ scraped_links[e].site = links[i].site
                    /\ scraped_links[e].title = GetTextStripped(a)
                    /\ scraped_links[e].link =
                         IF StartsWith(a.href.val, "http") THEN a.href.val
                         ELSE UrlJoin(links[i].link, a.href.val)

-----------------------------------------------------------------------------
(* C10: every registered URL is requested exactly once, Examsnet's before  *)
(* Selfstudys'; a page whose fetch fails contributes no entry and is not   *)
(* requested again, and the other page is still fetched and its matched    *)
(* anchors are returned, up to the limit of 5.                             *)
C10_FailedPageSkipped ==
  LET pages == CallsOf("archive_page")
  IN  /\ Len(pages) <= Len(links)
      /\ \A i \in 1..Len(pages) : pages[i].arg = links[i].link
      /\ Done => Len(pages) = Len(links)
      /\ Len(links) = 2 =>
           links[1].site = "Examsnet" /\ links[2].site = "Selfstudys"
      /\ \A i \in 1..Len(pages) :
           EntriesOf(scraped_links, links[i].site) =
             IF CallFailed(pages[i]) THEN <<>>
             ELSE ScrapePage(links[i], pages[i].resp.anchors)
      /\ Done => free_pyqs = Take(scraped_links, 5)

\* Examsnet's page failed and Selfstudys' links are returned
C10_Witness ==
  /\ Done /\ Len(CallsOf("archive_page")) = 2
  /\ CallFailed(calls[1]) /\ ~CallFailed(calls[2])
  /\ Len(free_pyqs) > 0
  /\ \A i \in 1..Len(free_pyqs) : free_pyqs[i].site = "Selfstudys"

====
